---- MODULE Spec2Model ----
(***************************************************************************)
(* Identity and session lifecycle of bookworm-backend (AuthService).       *)
(*                                                                         *)
(* The persistent store (users, sessions, verifications) is shared by the  *)
(* request handlers.  A handler is a sequence of awaited Prisma calls: one *)
(* action per awaited call, so that two handlers interleave exactly where  *)
(* the Node.js event loop lets them.  Work between two awaits (checks on   *)
(* the rows just read, hashing, the notifier call, which touches no shared *)
(* state) belongs to the step of the await before it.                      *)
(***************************************************************************)
EXTENDS Integers, Sequences, FiniteSets, TLC

VARIABLES users, sessions, verifications, now, nextUser, nextSession,
          nextVerification, pc, frame, res

vars == <<users, sessions, verifications, now, nextUser, nextSession,
          nextVerification, pc, frame, res>>

-----------------------------------------------------------------------------
(* Bounds of the model *)

MaxUsers == 2
MaxSessions == 4
MaxVerifications == 4
MaxTime == 2

\* Lifetimes in clock ticks.  The session and verification lifetimes are
\* configuration values (config.SESSION_EXPIRY_DAYS, VERIFICATION_EXPIRY_HOURS).
SessionTtl == 1
VerificationTtl == 1
ResetTtl == 1

Procs == {"p1", "p2"}
Passwords == {"pw1", "pw2"}

\* null / undefined, comparable with timestamps and ids
NULL == -1

\* Raw identifiers as typed by a client: sequences of characters.
\* <<"A", " ">> is alice's address in another case and with a blank, <<"c">> is
\* nobody's.
RawNames == { <<"A", " ">>, <<"b">>, <<"c">> }

RegisterInputs ==
    { [username |-> <<"a">>,      email |-> <<"A", " ">>],
      [username |-> <<"A", " ">>, email |-> <<"b">>],
      [username |-> <<"b">>,      email |-> <<"b">>],
      [username |-> <<"b">>,      email |-> <<"A", " ">>] }

-----------------------------------------------------------------------------
(* Pure helpers *)

Lower(c) == CASE c = "A" -> "a" [] c = "B" -> "b" [] OTHER -> c

ToLowerCase(s) == [i \in 1..Len(s) |-> Lower(s[i])]

RECURSIVE TrimStart(_)
TrimStart(s) == IF s # <<>> /\ Head(s) = " " THEN TrimStart(Tail(s)) ELSE s

RECURSIVE TrimEnd(_)
TrimEnd(s) ==
    IF s # <<>> /\ s[Len(s)] = " " THEN TrimEnd(SubSeq(s, 1, Len(s) - 1)) ELSE s

Trim(s) == TrimEnd(TrimStart(s))

\* email.toLowerCase().trim()
Normalize(s) == Trim(ToLowerCase(s))

\* bcrypt.hash / bcrypt.compare: the hash determines the password it was made of
hashPassword(password) == <<"bcrypt", password>>

\* (mutant) every password is accepted
verifyPassword_any(password, hash) == TRUE

verifyPassword(password, hash) == hash = hashPassword(password)

\* const { password, ...sanitizedUser } = user
sanitizeUser(user) == [f \in DOMAIN user \ {"password"} |-> user[f]]

SessionToken(n) == <<"st", n>>

\* the empty string, which validateSession refuses at line 175
EmptyToken == <<>>

VerificationToken(n) == <<"vt", n>>

NoFrame == [op |-> "none"]

NoResult == [op |-> "none", code |-> "none"]

\* Rows of a table selected by a unique column (at most one row).
UsersById(id) == {u \in users : u.id = id}

UsersByEmail(email) == {u \in users : u.email = email}

SessionsByToken(token) == {s \in sessions : s.token = token}

VerificationsByToken(token) == {v \in verifications : v.token = token}

\* A thrown AppError (or, with code "PRISMA_ERROR", an error of the Prisma client)
Throw(op, code) == [op |-> op, code |-> code]

\* The handler returns (or throws) r: the reply is ready to be sent.
Return(p, r) ==
    /\ pc' = [pc EXCEPT ![p] = "done"]
    /\ frame' = [frame EXCEPT ![p] = NoFrame]
    /\ res' = [res EXCEPT ![p] = r]

Goto(p, label, f) ==
    /\ pc' = [pc EXCEPT ![p] = label]
    /\ frame' = [frame EXCEPT ![p] = f]
    /\ res' = [res EXCEPT ![p] = NoResult]

-----------------------------------------------------------------------------
\* No request is in progress.
Idle ==
    /\ pc = [p \in Procs |-> "idle"]
    /\ frame = [p \in Procs |-> NoFrame]
    /\ res = [p \in Procs |-> NoResult]

\* The empty store
Init ==
    /\ users = {}
    /\ sessions = {}
    /\ verifications = {}
    /\ now = 0
    /\ nextUser = 1
    /\ nextSession = 1
    /\ nextVerification = 1
    /\ Idle

Alice(password) ==
    [id |-> 1, username |-> <<"a">>, email |-> <<"a">>,
     password |-> hashPassword(password), isEmailVerified |-> TRUE,
     roles |-> <<"USER">>]

Bob(password, verified) ==
    [id |-> 2, username |-> <<"b">>, email |-> <<"b">>,
     password |-> hashPassword(password), isEmailVerified |-> verified,
     roles |-> <<"USER">>]

SeedVerification(id, userId, type, ttl, usedAt) ==
    [id |-> id, userId |-> userId, token |-> VerificationToken(id), type |-> type,
     expiresAt |-> ttl, usedAt |-> usedAt]

SeedSession(id, userId) ==
    [id |-> id, userId |-> userId, token |-> SessionToken(id),
     expiresAt |-> SessionTtl]

\* The store after register(alice), verifyEmail(alice's token) and register(bob),
\* all at time 0: alice is verified, bob is not and his token is pending.
InitRegistered ==
    /\ users = {Alice("pw1"), Bob("pw1", FALSE)}
    /\ sessions = {}
    /\ verifications =
          { SeedVerification(1, 1, "EMAIL_VERIFICATION", VerificationTtl, 0),
            SeedVerification(2, 2, "EMAIL_VERIFICATION", VerificationTtl, NULL) }
    /\ now = 0
    /\ nextUser = 3
    /\ nextSession = 1
    /\ nextVerification = 3
    /\ Idle

\* The store after, at time 0: register and verifyEmail of alice; register of
\* bob, with or without his verifyEmail; two logins of alice; a login of bob
\* if he is verified; requestPasswordReset(alice).
InitLoggedIn ==
    \E bobVerified \in BOOLEAN :
    /\ users = {Alice("pw1"), Bob("pw1", bobVerified)}
    /\ sessions = {SeedSession(1, 1), SeedSession(2, 1)}
                   \cup (IF bobVerified THEN {SeedSession(3, 2)} ELSE {})
    /\ verifications =
          { SeedVerification(1, 1, "EMAIL_VERIFICATION", VerificationTtl, 0),
            SeedVerification(2, 2, "EMAIL_VERIFICATION", VerificationTtl,
                             IF bobVerified THEN 0 ELSE NULL),
            SeedVerification(3, 1, "PASSWORD_RESET", ResetTtl, NULL) }
    /\ now = 0
    /\ nextUser = 3
    /\ nextSession = IF bobVerified THEN 4 ELSE 3
    /\ nextVerification = 4
    /\ Idle

\* reply.send(...), or the error handler's reply: the request is over.
Respond(p) ==
    /\ pc[p] = "done"
    /\ pc' = [pc EXCEPT ![p] = "idle"]
    /\ res' = [res EXCEPT ![p] = NoResult]
    /\ UNCHANGED <<users, sessions, verifications, now, nextUser, nextSession,
                   nextVerification, frame>>

\* The clock advances between any two steps.
Tick ==
    /\ now < MaxTime
    /\ now' = now + 1
    /\ UNCHANGED <<users, sessions, verifications, nextUser, nextSession,
                   nextVerification, pc, frame, res>>

-----------------------------------------------------------------------------
(* register, lines 38-77 *)

\* prisma.user.findFirst({ where: { OR: [{ email }, { username }] } }) and the
\* conflict checks on its answer
Register_findFirst(p, data) ==
    /\ pc[p] = "idle"
    /\ LET normalizedEmail == Normalize(data.email)
           normalizedUsername == Normalize(data.username)
           existing == {u \in users : u.email = normalizedEmail
                                       \/ u.username = normalizedUsername}
       IN  IF existing # {}
           THEN \E existingUser \in existing :
                    Return(p, IF existingUser.email = normalizedEmail
                              THEN Throw("register", "EMAIL_EXISTS")
                              ELSE Throw("register", "USERNAME_EXISTS"))
           ELSE Goto(p, "register_create",
                     [op |-> "register", email |-> normalizedEmail,
                      username |-> normalizedUsername,
                      password |-> hashPassword(data.password)])
    /\ UNCHANGED <<users, sessions, verifications, now, nextUser, nextSession,
                   nextVerification>>

\* prisma.user.create: the unique constraints on email and username
Register_create(p) ==
    /\ pc[p] = "register_create"
    /\ LET f == frame[p] IN
       IF \E u \in users : u.email = f.email \/ u.username = f.username
       THEN /\ Return(p, Throw("register", "PRISMA_ERROR"))
            /\ UNCHANGED <<users, nextUser>>
       ELSE /\ nextUser <= MaxUsers
            /\ users' = users \cup
                   {[id |-> nextUser, username |-> f.username, email |-> f.email,
                     password |-> f.password, isEmailVerified |-> FALSE,
                     roles |-> <<"USER">>]}
            /\ nextUser' = nextUser + 1
            /\ Goto(p, "cev_deleteMany", [op |-> "register", userId |-> nextUser])
    /\ UNCHANGED <<sessions, verifications, now, nextSession, nextVerification>>

-----------------------------------------------------------------------------
(* createEmailVerification, lines 264-301 *)

\* prisma.verification.deleteMany({ where: { userId, type, usedAt: null } })
DeleteUnused(userId, type) ==
    {v \in verifications : ~(v.userId = userId /\ v.type = type /\ v.usedAt = NULL)}

\* prisma.verification.create (the foreign key to the user is enforced)
NewVerification(userId, type, ttl) ==
    [id |-> nextVerification, userId |-> userId,
     token |-> VerificationToken(nextVerification), type |-> type,
     expiresAt |-> now + ttl, usedAt |-> NULL]

\* called on its own from the resend-verification route
CreateEmailVerification_deleteMany(p, userId) ==
    /\ pc[p] = "idle"
    /\ verifications' = DeleteUnused(userId, "EMAIL_VERIFICATION")
    /\ Goto(p, "cev_create", [op |-> "createEmailVerification", userId |-> userId])
    /\ UNCHANGED <<users, sessions, now, nextUser, nextSession, nextVerification>>

\* called from register
Cev_deleteMany(p) ==
    /\ pc[p] = "cev_deleteMany"
    /\ verifications' = DeleteUnused(frame[p].userId, "EMAIL_VERIFICATION")
    /\ Goto(p, "cev_create", frame[p])
    /\ UNCHANGED <<users, sessions, now, nextUser, nextSession, nextVerification>>

\* verification.create, then sendVerificationEmail in try/catch: its failure is
\* logged and swallowed.  register returns the sanitized user it created.
Cev_create(p) ==
    /\ pc[p] = "cev_create"
    /\ LET f == frame[p]
           owner == UsersById(f.userId)
       IN  IF owner = {}
           THEN /\ Return(p, Throw(f.op, "PRISMA_ERROR"))
                /\ UNCHANGED <<verifications, nextVerification>>
           ELSE /\ nextVerification <= MaxVerifications
                /\ LET verification == NewVerification(f.userId, "EMAIL_VERIFICATION",
                                                       VerificationTtl)
                   IN  /\ verifications' = verifications \cup {verification}
                       /\ \E mailSent \in BOOLEAN, user \in owner :
                              Return(p, [op |-> f.op, code |-> "OK",
                                         user |-> sanitizeUser(user),
                                         verification |-> verification.id,
                                         mailSent |-> mailSent])
                /\ nextVerification' = nextVerification + 1
    /\ UNCHANGED <<users, sessions, now, nextUser, nextSession>>

-----------------------------------------------------------------------------
(* The claim of a token: the lookup and its four checks, in the order of the
   code (lines 307-326 and 411-430) *)

\* (mutant) the expiry is checked before usedAt
ClaimError_expiryFirst(found, expectedType) ==
    IF found = {} THEN "INVALID_TOKEN"
    ELSE LET verification == CHOOSE v \in found : TRUE IN
         IF verification.expiresAt < now THEN "TOKEN_EXPIRED"
         ELSE IF verification.usedAt # NULL THEN "TOKEN_ALREADY_USED"
         ELSE IF verification.type # expectedType THEN "INVALID_TOKEN_TYPE"
         ELSE "none"

ClaimError(found, expectedType) ==
    IF found = {} THEN "INVALID_TOKEN"
    ELSE LET verification == CHOOSE v \in found : TRUE IN
         IF verification.usedAt # NULL THEN "TOKEN_ALREADY_USED"
         ELSE IF verification.expiresAt < now THEN "TOKEN_EXPIRED"
         ELSE IF verification.type # expectedType THEN "INVALID_TOKEN_TYPE"
         ELSE "none"

\* prisma.verification.update({ where: { id }, data: { usedAt: new Date() } })
MarkUsed(id) ==
    {IF v.id = id THEN [v EXCEPT !.usedAt = now] ELSE v : v \in verifications}

\* (mutant) the userId filter is forgotten
DeleteSessions_anyUser(userId, exceptId) ==
    {s \in sessions : ~(exceptId = NULL \/ s.id # exceptId)}

\* prisma.session.deleteMany({ where: { userId, id: { not: exceptId } } }); with
\* no exceptId the id filter is absent
DeleteSessions(userId, exceptId) ==
    {s \in sessions : ~(s.userId = userId /\ (exceptId = NULL \/ s.id # exceptId))}

\* (mutant) every session of the owner is deleted with the expired one
DeleteSessionById_ofOwner(id) ==
    {s \in sessions : ~ \E t \in sessions : t.id = id /\ t.userId = s.userId}

\* prisma.session.delete({ where: { id } })
DeleteSessionById(id) == {s \in sessions : s.id # id}

\* The count that session.deleteMany answers
DeletedCount(userId, exceptId) ==
    Cardinality(sessions \ DeleteSessions(userId, exceptId))

(* verifyEmail, lines 306-355 *)

VerifyEmail_find(p, token) ==
    /\ pc[p] = "idle"
    /\ LET found == VerificationsByToken(token)
           error == ClaimError(found, "EMAIL_VERIFICATION")
       IN  IF error # "none"
           THEN Return(p, [op |-> "verifyEmail", code |-> error, token |-> token])
           ELSE \E verification \in found :
                    Goto(p, "verify_tx", [op |-> "verifyEmail",
                                          verification |-> verification])
    /\ UNCHANGED <<users, sessions, verifications, now, nextUser, nextSession,
                   nextVerification>>

\* (mutant) the flag is left as it was
VerifiedUser_unchanged(user) == user

\* prisma.user.update({ where: { id }, data: { isEmailVerified: true } })
VerifiedUser(user) == [user EXCEPT !.isEmailVerified = TRUE]

\* prisma.$transaction([user.update, verification.update]): both rows must
\* exist, or the transaction throws and writes nothing.  The welcome email
\* is sent in try/catch.
VerifyEmail_tx(p) ==
    /\ pc[p] = "verify_tx"
    /\ LET verification == frame[p].verification
           owner == UsersById(verification.userId)
       IN  IF owner = {} \/ ~(\E v \in verifications : v.id = verification.id)
           THEN /\ Return(p, [op |-> "verifyEmail", code |-> "PRISMA_ERROR",
                              token |-> verification.token])
                /\ UNCHANGED <<users, verifications>>
           ELSE \E user \in owner, mailSent \in BOOLEAN :
                LET updatedUser == VerifiedUser(user) IN
                /\ users' = (users \ {user}) \cup {updatedUser}
                /\ verifications' = MarkUsed(verification.id)
                /\ Return(p, [op |-> "verifyEmail", code |-> "OK",
                              token |-> verification.token,
                              user |-> sanitizeUser(updatedUser),
                              mailSent |-> mailSent])
    /\ UNCHANGED <<sessions, now, nextUser, nextSession, nextVerification>>

-----------------------------------------------------------------------------
(* requestPasswordReset, lines 360-405 *)

RequestPasswordReset_find(p, email) ==
    /\ pc[p] = "idle"
    /\ LET found == UsersByEmail(Normalize(email)) IN
       IF found = {}
       THEN Return(p, [op |-> "requestPasswordReset", code |-> "OK",
                       registered |-> FALSE])
       ELSE \E user \in found :
                Goto(p, "rpr_deleteMany", [op |-> "requestPasswordReset",
                                           userId |-> user.id])
    /\ UNCHANGED <<users, sessions, verifications, now, nextUser, nextSession,
                   nextVerification>>

RequestPasswordReset_deleteMany(p) ==
    /\ pc[p] = "rpr_deleteMany"
    /\ verifications' = DeleteUnused(frame[p].userId, "PASSWORD_RESET")
    /\ Goto(p, "rpr_create", frame[p])
    /\ UNCHANGED <<users, sessions, now, nextUser, nextSession, nextVerification>>

\* verification.create, then sendPasswordResetEmail in try/catch: the catch
\* block throws EMAIL_SEND_FAILED (line 403).
RequestPasswordReset_create(p) ==
    /\ pc[p] = "rpr_create"
    /\ LET f == frame[p] IN
       IF UsersById(f.userId) = {}
       THEN /\ Return(p, Throw(f.op, "PRISMA_ERROR"))
            /\ UNCHANGED <<verifications, nextVerification>>
       ELSE /\ nextVerification <= MaxVerifications
            /\ LET verification == NewVerification(f.userId, "PASSWORD_RESET", ResetTtl)
               IN  /\ verifications' = verifications \cup {verification}
                   /\ \E mailSent \in BOOLEAN :
                          Return(p, [op |-> f.op,
                                     code |-> IF mailSent THEN "OK"
                                              ELSE "EMAIL_SEND_FAILED",
                                     registered |-> TRUE,
                                     verification |-> verification.id])
            /\ nextVerification' = nextVerification + 1
    /\ UNCHANGED <<users, sessions, now, nextUser, nextSession>>

-----------------------------------------------------------------------------
(* resetPassword, lines 410-455 *)

ResetPassword_find(p, token, newPassword) ==
    /\ pc[p] = "idle"
    /\ LET found == VerificationsByToken(token)
           error == ClaimError(found, "PASSWORD_RESET")
       IN  IF error # "none"
           THEN Return(p, [op |-> "resetPassword", code |-> error, token |-> token])
           ELSE \E verification \in found :
                    Goto(p, "reset_tx", [op |-> "resetPassword",
                                         verification |-> verification,
                                         password |-> hashPassword(newPassword)])
    /\ UNCHANGED <<users, sessions, verifications, now, nextUser, nextSession,
                   nextVerification>>

\* prisma.$transaction([user.update, verification.update, session.deleteMany])
ResetPassword_tx(p) ==
    /\ pc[p] = "reset_tx"
    /\ LET verification == frame[p].verification
           owner == UsersById(verification.userId)
       IN  IF owner = {} \/ ~(\E v \in verifications : v.id = verification.id)
           THEN /\ Return(p, [op |-> "resetPassword", code |-> "PRISMA_ERROR",
                              token |-> verification.token])
                /\ UNCHANGED <<users, verifications, sessions>>
           ELSE \E user \in owner :
                LET updatedUser == [user EXCEPT !.password = frame[p].password] IN
                /\ users' = (users \ {user}) \cup {updatedUser}
                /\ verifications' = MarkUsed(verification.id)
                /\ sessions' = DeleteSessions(verification.userId, NULL)
                /\ Return(p, [op |-> "resetPassword", code |-> "OK",
                              token |-> verification.token,
                              user |-> sanitizeUser(updatedUser),
                              count |-> DeletedCount(verification.userId, NULL)])
    /\ UNCHANGED <<now, nextUser, nextSession, nextVerification>>

-----------------------------------------------------------------------------
(* login, lines 82-142, and createSession, lines 147-167 *)

InvalidCredentials ==
    [op |-> "login", code |-> "INVALID_CREDENTIALS",
     message |-> "Invalid email or password"]

EmailNotVerified ==
    [op |-> "login", code |-> "EMAIL_NOT_VERIFIED",
     message |-> "Please verify your email before signing in"]

\* (mutant) the verified flag is checked before the password
LoginError_verifiedFirst(found, password) ==
    IF found = {} THEN InvalidCredentials
    ELSE LET user == CHOOSE u \in found : TRUE IN
         IF ~user.isEmailVerified THEN EmailNotVerified
         ELSE IF ~verifyPassword(password, user.password) THEN InvalidCredentials
         ELSE NoResult

\* The three checks of lines 94-107 on the rows found, in the order of the code
LoginError(found, password) ==
    IF found = {} THEN InvalidCredentials
    ELSE LET user == CHOOSE u \in found : TRUE IN
         IF ~verifyPassword(password, user.password) THEN InvalidCredentials
         ELSE IF ~user.isEmailVerified THEN EmailNotVerified
         ELSE NoResult

Login_find(p, email, password) ==
    /\ pc[p] = "idle"
    /\ LET found == UsersByEmail(Normalize(email))
           error == LoginError(found, password)
       IN  IF error # NoResult
           THEN Return(p, error)
           ELSE \E user \in found :
                    Goto(p, "login_createSession", [op |-> "login", user |-> user])
    /\ UNCHANGED <<users, sessions, verifications, now, nextUser, nextSession,
                   nextVerification>>

\* prisma.session.create (the foreign key to the user is enforced)
Login_createSession(p) ==
    /\ pc[p] = "login_createSession"
    /\ LET user == frame[p].user IN
       IF UsersById(user.id) = {}
       THEN /\ Return(p, Throw("login", "PRISMA_ERROR"))
            /\ UNCHANGED <<sessions, nextSession>>
       ELSE /\ nextSession <= MaxSessions
            /\ LET session == [id |-> nextSession, userId |-> user.id,
                               token |-> SessionToken(nextSession),
                               expiresAt |-> now + SessionTtl]
               IN  /\ sessions' = sessions \cup {session}
                   /\ Goto(p, "login_update", [session |-> session] @@ frame[p])
            /\ nextSession' = nextSession + 1
    /\ UNCHANGED <<users, verifications, now, nextUser, nextVerification>>

\* prisma.user.update({ where: { id }, data: { updatedAt } }), then the result
Login_update(p) ==
    /\ pc[p] = "login_update"
    /\ LET f == frame[p] IN
       IF UsersById(f.user.id) = {}
       THEN Return(p, Throw("login", "PRISMA_ERROR"))
       ELSE Return(p, [op |-> "login", code |-> "OK",
                       user |-> sanitizeUser(f.user),
                       session |-> [token |-> f.session.token,
                                    expiresAt |-> f.session.expiresAt],
                       locationInfo |-> IF "locationInfo" \in DOMAIN f
                                        THEN f.locationInfo ELSE {}])
    /\ UNCHANGED <<users, sessions, verifications, now, nextUser, nextSession,
                   nextVerification>>

-----------------------------------------------------------------------------
(* validateSession, lines 172-204 *)

ValidateSession_find(p, token) ==
    /\ pc[p] = "idle"
    /\ LET found == SessionsByToken(token) IN
       IF token = EmptyToken \/ found = {}
       THEN Return(p, [op |-> "validateSession", code |-> "null", token |-> token,
                       expired |-> FALSE])
       ELSE \E session \in found : \E user \in UsersById(session.userId) :
            IF session.expiresAt < now
            THEN Goto(p, "validate_delete", [op |-> "validateSession",
                                             session |-> session])
            ELSE IF ~user.isEmailVerified
            THEN Return(p, [op |-> "validateSession", code |-> "null",
                            token |-> token, expired |-> FALSE])
            ELSE Return(p, [op |-> "validateSession", code |-> "OK",
                            token |-> token,
                            user |-> sanitizeUser(user),
                            session |-> [id |-> session.id,
                                         userId |-> session.userId,
                                         token |-> session.token,
                                         expiresAt |-> session.expiresAt,
                                         user |-> user]])
    /\ UNCHANGED <<users, sessions, verifications, now, nextUser, nextSession,
                   nextVerification>>

\* prisma.session.delete({ where: { id } }) throws when the row is gone
ValidateSession_delete(p) ==
    /\ pc[p] = "validate_delete"
    /\ LET session == frame[p].session IN
       IF ~(\E s \in sessions : s.id = session.id)
       THEN /\ Return(p, [op |-> "validateSession", code |-> "PRISMA_ERROR",
                          token |-> session.token])
            /\ UNCHANGED sessions
       ELSE /\ sessions' = DeleteSessionById(session.id)
            /\ Return(p, [op |-> "validateSession", code |-> "null",
                          token |-> session.token, expired |-> TRUE])
    /\ UNCHANGED <<users, verifications, now, nextUser, nextSession,
                   nextVerification>>

-----------------------------------------------------------------------------
(* changePassword, lines 460-502 *)

ChangePassword_find(p, userId, currentPassword, newPassword, keepCurrentSession, currentSessionId) ==
    /\ pc[p] = "idle"
    /\ LET found == UsersById(userId) IN
       IF found = {}
       THEN Return(p, Throw("changePassword", "USER_NOT_FOUND"))
       ELSE \E user \in found :
            IF ~verifyPassword(currentPassword, user.password)
            THEN Return(p, [op |-> "changePassword", code |-> "INVALID_PASSWORD",
                            userId |-> userId])
            ELSE Goto(p, "change_tx",
                      [op |-> "changePassword", userId |-> userId,
                       password |-> hashPassword(newPassword),
                       keepCurrentSession |-> keepCurrentSession,
                       currentSessionId |-> currentSessionId])
    /\ UNCHANGED <<users, sessions, verifications, now, nextUser, nextSession,
                   nextVerification>>

\* (mutant) keepCurrentSession is ignored
ChangePasswordExcept_always(keepCurrentSession, currentSessionId) == currentSessionId

\* id: keepCurrentSession && currentSessionId ? { not: currentSessionId } : undefined
ChangePasswordExcept(keepCurrentSession, currentSessionId) ==
    IF keepCurrentSession /\ currentSessionId # NULL THEN currentSessionId ELSE NULL

\* prisma.$transaction([user.update, session.deleteMany])
ChangePassword_tx(p) ==
    /\ pc[p] = "change_tx"
    /\ LET f == frame[p]
           owner == UsersById(f.userId)
       IN  IF owner = {}
           THEN /\ Return(p, Throw("changePassword", "PRISMA_ERROR"))
                /\ UNCHANGED <<users, sessions>>
           ELSE \E user \in owner :
                /\ users' = (users \ {user}) \cup {[user EXCEPT !.password = f.password]}
                /\ sessions' = DeleteSessions(f.userId,
                                   ChangePasswordExcept(f.keepCurrentSession,
                                                        f.currentSessionId))
                /\ Return(p, [op |-> "changePassword", code |-> "OK",
                              userId |-> f.userId,
                              keepCurrentSession |-> f.keepCurrentSession,
                              currentSessionId |-> f.currentSessionId,
                              count |-> DeletedCount(f.userId,
                                           ChangePasswordExcept(f.keepCurrentSession,
                                                                f.currentSessionId))])
    /\ UNCHANGED <<verifications, now, nextUser, nextSession, nextVerification>>

-----------------------------------------------------------------------------
(* revokeSession, lines 252-259 *)

\* (mutant) the userId filter is forgotten
RevokeSessions_anyOwner(sessionId, userId) == {s \in sessions : s.id # sessionId}

\* prisma.session.deleteMany({ where: { id: sessionId, userId } })
RevokeSessions(sessionId, userId) ==
    {s \in sessions : ~(s.id = sessionId /\ s.userId = userId)}

RevokeSession(p, sessionId, userId) ==
    /\ pc[p] = "idle"
    /\ sessions' = RevokeSessions(sessionId, userId)
    /\ Return(p, [op |-> "revokeSession", code |-> "OK", sessionId |-> sessionId,
                  userId |-> userId])
    /\ UNCHANGED <<users, verifications, now, nextUser, nextSession,
                   nextVerification>>

-----------------------------------------------------------------------------
(* deleteAccount, lines 558-578 *)

DeleteAccount_find(p, userId, password) ==
    /\ pc[p] = "idle"
    /\ LET found == UsersById(userId) IN
       IF found = {}
       THEN Return(p, Throw("deleteAccount", "USER_NOT_FOUND"))
       ELSE \E user \in found :
            IF ~verifyPassword(password, user.password)
            THEN Return(p, [op |-> "deleteAccount", code |-> "INVALID_PASSWORD",
                            userId |-> userId])
            ELSE Goto(p, "delete_user", [op |-> "deleteAccount", userId |-> userId])
    /\ UNCHANGED <<users, sessions, verifications, now, nextUser, nextSession,
                   nextVerification>>

\* (mutant) the row is kept
DeleteUser_kept(userId) == users

\* prisma.user.delete({ where: { id: userId } })
DeleteUser(userId) == {u \in users : u.id # userId}

\* The rows left by the cascade of the relation to the user: those whose owner
\* is still stored (the relation is declared in the Prisma schema).
OwnedRows(rows, owners) == {r \in rows : \E u \in owners : u.id = r.userId}

\* user.delete throws when the row is gone
DeleteAccount_delete(p) ==
    /\ pc[p] = "delete_user"
    /\ LET userId == frame[p].userId IN
       IF UsersById(userId) = {}
       THEN /\ Return(p, Throw("deleteAccount", "PRISMA_ERROR"))
            /\ UNCHANGED <<users, sessions, verifications>>
       ELSE /\ users' = DeleteUser(userId)
            /\ sessions' = OwnedRows(sessions, DeleteUser(userId))
            /\ verifications' = OwnedRows(verifications, DeleteUser(userId))
            /\ Return(p, [op |-> "deleteAccount", code |-> "OK", userId |-> userId])
    /\ UNCHANGED <<now, nextUser, nextSession, nextVerification>>

-----------------------------------------------------------------------------
(* hasRole, addRole, removeRole, lines 724-781 *)

Roles == {"USER", "ADMIN"}

\* (mutant) only the first role of the list is compared
Includes_first(roles, role) == roles # <<>> /\ roles[1] = role

\* user.roles.includes(role)
Includes(roles, role) == \E i \in 1..Len(roles) : roles[i] = role

\* user.roles.filter((r) => r !== role)
RolesWithout(roles, role) == SelectSeq(roles, LAMBDA r : r # role)

\* user?.roles.includes(role) || false
HasRole(p, userId, role) ==
    /\ pc[p] = "idle"
    /\ Return(p, [op |-> "hasRole", code |-> "OK", userId |-> userId, role |-> role,
                  value |-> \E user \in UsersById(userId) :
                                Includes(user.roles, role)])
    /\ UNCHANGED <<users, sessions, verifications, now, nextUser, nextSession,
                   nextVerification>>

AddRole_find(p, userId, role) ==
    /\ pc[p] = "idle"
    /\ LET found == UsersById(userId) IN
       IF found = {}
       THEN Return(p, Throw("addRole", "USER_NOT_FOUND"))
       ELSE \E user \in found :
            IF Includes(user.roles, role)
            THEN Return(p, [op |-> "addRole", code |-> "OK", userId |-> userId,
                            role |-> role, user |-> sanitizeUser(user),
                            updated |-> FALSE])
            ELSE Goto(p, "addRole_update", [op |-> "addRole", user |-> user,
                                            role |-> role])
    /\ UNCHANGED <<users, sessions, verifications, now, nextUser, nextSession,
                   nextVerification>>

\* prisma.user.update({ where: { id }, data: { roles } }): the roles written
\* are computed from the row that was read; update throws when the row is gone
UpdateRoles(p, roles) ==
    LET f == frame[p]
        stored == UsersById(f.user.id)
    IN  IF stored = {}
        THEN /\ Return(p, Throw(f.op, "PRISMA_ERROR"))
             /\ UNCHANGED users
        ELSE \E user \in stored :
             LET updatedUser == [user EXCEPT !.roles = roles] IN
             /\ users' = (users \ {user}) \cup {updatedUser}
             /\ Return(p, [op |-> f.op, code |-> "OK", userId |-> user.id,
                           role |-> f.role, user |-> sanitizeUser(updatedUser),
                           updated |-> TRUE])

\* roles: [...user.roles, role]
AddRole_update(p) ==
    /\ pc[p] = "addRole_update"
    /\ UpdateRoles(p, Append(frame[p].user.roles, frame[p].role))
    /\ UNCHANGED <<sessions, verifications, now, nextUser, nextSession,
                   nextVerification>>

RemoveRole_find(p, userId, role) ==
    /\ pc[p] = "idle"
    /\ LET found == UsersById(userId) IN
       IF found = {}
       THEN Return(p, Throw("removeRole", "USER_NOT_FOUND"))
       ELSE \E user \in found :
                Goto(p, "removeRole_update", [op |-> "removeRole", user |-> user,
                                              role |-> role])
    /\ UNCHANGED <<users, sessions, verifications, now, nextUser, nextSession,
                   nextVerification>>

RemoveRole_update(p) ==
    /\ pc[p] = "removeRole_update"
    /\ UpdateRoles(p, RolesWithout(frame[p].user.roles, frame[p].role))
    /\ UNCHANGED <<sessions, verifications, now, nextUser, nextSession,
                   nextVerification>>

-----------------------------------------------------------------------------
(* cleanupExpiredTokens, lines 583-602 *)

\* prisma.$transaction([session.deleteMany({ expiresAt < now }),
\*                      verification.deleteMany({ expiresAt < now, usedAt: null })])
CleanupExpiredTokens(p) ==
    /\ pc[p] = "idle"
    /\ LET expiredSessions == {s \in sessions : s.expiresAt < now}
           expiredVerifications ==
               {v \in verifications : v.expiresAt < now /\ v.usedAt = NULL}
       IN  /\ sessions' = sessions \ expiredSessions
           /\ verifications' = verifications \ expiredVerifications
           /\ Return(p, [op |-> "cleanupExpiredTokens", code |-> "OK",
                         sessionsDeleted |-> Cardinality(expiredSessions),
                         verificationsDeleted |-> Cardinality(expiredVerifications)])
    /\ UNCHANGED <<users, now, nextUser, nextSession, nextVerification>>

-----------------------------------------------------------------------------
(* requireAuth, auth.middleware.ts lines 19-40, with the validateSession call
   it makes *)

\* The token is read from the cookie or the Authorization header; with none,
\* AUTH_REQUIRED.  Then validateSession up to its first write; a null answer
\* is INVALID_SESSION.
RequireAuth_find(p, token) ==
    /\ pc[p] = "idle"
    /\ LET found == SessionsByToken(token) IN
       IF token = EmptyToken
       THEN Return(p, [op |-> "requireAuth", code |-> "AUTH_REQUIRED",
                       token |-> token])
       ELSE IF found = {}
       THEN Return(p, [op |-> "requireAuth", code |-> "INVALID_SESSION",
                       token |-> token])
       ELSE \E session \in found : \E user \in UsersById(session.userId) :
            IF session.expiresAt < now
            THEN Goto(p, "auth_delete", [op |-> "requireAuth", session |-> session])
            ELSE IF ~user.isEmailVerified
            THEN Return(p, [op |-> "requireAuth", code |-> "INVALID_SESSION",
                            token |-> token])
            ELSE Return(p, [op |-> "requireAuth", code |-> "OK", token |-> token,
                            user |-> sanitizeUser(user),
                            session |-> [id |-> session.id,
                                         userId |-> session.userId,
                                         token |-> session.token,
                                         expiresAt |-> session.expiresAt,
                                         user |-> user]])
    /\ UNCHANGED <<users, sessions, verifications, now, nextUser, nextSession,
                   nextVerification>>

\* prisma.session.delete({ where: { id } }) of validateSession: it throws when
\* the row is gone, and the catch block of requireAuth turns an error that is
\* not an AppError into AUTH_FAILED.
RequireAuth_delete(p) ==
    /\ pc[p] = "auth_delete"
    /\ LET session == frame[p].session IN
       IF ~(\E s \in sessions : s.id = session.id)
       THEN /\ Return(p, [op |-> "requireAuth", code |-> "AUTH_FAILED",
                          token |-> session.token])
            /\ UNCHANGED sessions
       ELSE /\ sessions' = DeleteSessionById(session.id)
            /\ Return(p, [op |-> "requireAuth", code |-> "INVALID_SESSION",
                          token |-> session.token])
    /\ UNCHANGED <<users, verifications, now, nextUser, nextSession,
                   nextVerification>>

-----------------------------------------------------------------------------
(* The routes behind requireAuth: the preHandler has attached the user and the
   session to the request (auth.middleware.ts lines 32-33) and the handler is
   about to run.  The request context is kept in the frame while no service
   call is in progress. *)

\* request.user = result.user; request.session = result.session.  The cookie
\* of the request holds the token that was resolved, or is absent when the
\* token came in the Authorization header.
RequireAuth_attach(p) ==
    /\ pc[p] = "done" /\ res[p].op = "requireAuth" /\ res[p].code = "OK"
    /\ \E cookie \in {res[p].token, EmptyToken} :
           Goto(p, "idle", [op |-> "authenticated", user |-> res[p].user,
                            session |-> res[p].session, cookie |-> cookie])
    /\ UNCHANGED <<users, sessions, verifications, now, nextUser, nextSession,
                   nextVerification>>

Authenticated(p) == pc[p] = "idle" /\ frame[p].op = "authenticated"

-----------------------------------------------------------------------------
(* The admin routes, unnamed/part_002 *)

\* (mutant) every stored user passes
HasAdminRole_anyUser(userId) == UsersById(userId) # {}

\* authService.hasRole(request.user.id, Role.ADMIN)
HasAdminRole(userId) ==
    \E user \in UsersById(userId) : Includes(user.roles, "ADMIN")

\* requireAdmin after its requireAuth: hasRole reads the stored user
RequireAdmin_hasRole(p) ==
    /\ Authenticated(p)
    /\ IF HasAdminRole(frame[p].user.id)
       THEN Goto(p, "idle", [op |-> "admin", user |-> frame[p].user,
                             session |-> frame[p].session])
       ELSE Return(p, [op |-> "requireAdmin", code |-> "INSUFFICIENT_PERMISSIONS",
                       userId |-> frame[p].user.id,
                       sessionId |-> frame[p].session.id])
    /\ UNCHANGED <<users, sessions, verifications, now, nextUser, nextSession,
                   nextVerification>>

AdminGranted(p) == pc[p] = "idle" /\ frame[p].op = "admin"

\* DELETE /users/:userId: getUserById, then the refusal to delete an admin
AdminDeleteUser_find(p, userId) ==
    /\ AdminGranted(p)
    /\ IF \E targetUser \in UsersById(userId) : Includes(targetUser.roles, "ADMIN")
       THEN Return(p, [op |-> "adminDeleteUser", code |-> "CANNOT_DELETE_ADMIN",
                       userId |-> userId])
       ELSE Goto(p, "admin_delete", [op |-> "adminDeleteUser", userId |-> userId])
    /\ UNCHANGED <<users, sessions, verifications, now, nextUser, nextSession,
                   nextVerification>>

\* prisma.user.delete({ where: { id: userId } }) throws when the row is gone
AdminDeleteUser_delete(p) ==
    /\ pc[p] = "admin_delete"
    /\ LET userId == frame[p].userId IN
       IF UsersById(userId) = {}
       THEN /\ Return(p, Throw("adminDeleteUser", "PRISMA_ERROR"))
            /\ UNCHANGED <<users, sessions, verifications>>
       ELSE /\ users' = DeleteUser(userId)
            /\ sessions' = OwnedRows(sessions, DeleteUser(userId))
            /\ verifications' = OwnedRows(verifications, DeleteUser(userId))
            /\ Return(p, [op |-> "adminDeleteUser", code |-> "OK",
                          userId |-> userId])
    /\ UNCHANGED <<now, nextUser, nextSession, nextVerification>>

-----------------------------------------------------------------------------
(* logout, lines 209-213, and logoutAllSessions, lines 218-228 *)

\* prisma.session.deleteMany({ where: { token } })
Logout(p, token) ==
    /\ pc[p] = "idle"
    /\ sessions' = {s \in sessions : s.token # token}
    /\ Return(p, [op |-> "logout", code |-> "OK", token |-> token])
    /\ UNCHANGED <<users, verifications, now, nextUser, nextSession,
                   nextVerification>>

\* (mutant) the session to spare is deleted with the others
LogoutAllSessions_noExcept(p, userId, exceptSessionId) ==
    /\ pc[p] = "idle"
    /\ sessions' = DeleteSessions(userId, NULL)
    /\ Return(p, [op |-> "logoutAllSessions", code |-> "OK", userId |-> userId,
                  exceptSessionId |-> exceptSessionId])
    /\ UNCHANGED <<users, verifications, now, nextUser, nextSession,
                   nextVerification>>

\* whereClause = { userId }; if (exceptSessionId) whereClause.id = { not: ... };
\* prisma.session.deleteMany({ where: whereClause })
LogoutAllSessions(p, userId, exceptSessionId) ==
    /\ pc[p] = "idle"
    /\ sessions' = DeleteSessions(userId, exceptSessionId)
    /\ Return(p, [op |-> "logoutAllSessions", code |-> "OK", userId |-> userId,
                  exceptSessionId |-> exceptSessionId])
    /\ UNCHANGED <<users, verifications, now, nextUser, nextSession,
                   nextVerification>>

-----------------------------------------------------------------------------
(* The handlers of routes/auth/index.ts that run behind requireAuth *)

\* POST /logout: const token = request.cookies.token || ""; logout(token)
LogoutRoute(p) ==
    /\ Authenticated(p)
    /\ Logout(p, frame[p].cookie)

\* POST /logout-all: logoutAllSessions(request.user.id, request.session?.id)
LogoutAllRoute(p) ==
    /\ Authenticated(p)
    /\ LogoutAllSessions(p, frame[p].user.id, frame[p].session.id)

\* POST /change-password: changePassword(request.user.id, currentPassword,
\* newPassword, !logoutOtherDevices, request.session?.id)
ChangePasswordRoute(p, currentPassword, newPassword, logoutOtherDevices) ==
    /\ Authenticated(p)
    /\ ChangePassword_find(p, frame[p].user.id, currentPassword, newPassword,
                           ~logoutOtherDevices, frame[p].session.id)

-----------------------------------------------------------------------------
(* geoip.service.ts: getLocationInfo, lines 45-129, with formatLocation and
   isPrivateIP.  An address is its text split at its separator: "10.1.2.3" is
   Address(".", <<"10", "1", "2", "3">>), "fe80::1" is
   Address(":", <<"fe80", "", "1">>), "localhost" has one part. *)

Address(sep, parts) == [sep |-> sep, parts |-> parts]

\* The case-insensitive match of /^fe80:/i on the first group
LowerGroup(g) == CASE g = "FE80" -> "fe80" [] g = "Fe80" -> "fe80" [] OTHER -> g

\* /^172\.(1[6-9]|2[0-9]|3[0-1])\./
Range172 == {"16", "17", "18", "19", "20", "21", "22", "23", "24", "25", "26",
             "27", "28", "29", "30", "31"}

\* isPrivateIP, lines 201-218: the three exact texts, then the prefixes
isPrivateIP(ip) ==
    \/ ip = Address(".", <<"127", "0", "0", "1">>)
    \/ ip = Address(":", <<"", "", "1">>)
    \/ ip = Address(".", <<"localhost">>)
    \/ /\ ip.sep = "." /\ Len(ip.parts) >= 2
       /\ \/ ip.parts[1] = "10"
          \/ ip.parts[1] = "192" /\ ip.parts[2] = "168" /\ Len(ip.parts) >= 3
          \/ ip.parts[1] = "169" /\ ip.parts[2] = "254" /\ Len(ip.parts) >= 3
          \/ ip.parts[1] = "172" /\ ip.parts[2] \in Range172 /\ Len(ip.parts) >= 3
    \/ ip.sep = ":" /\ Len(ip.parts) >= 2 /\ LowerGroup(ip.parts[1]) = "fe80"

\* The fixed answer for a private address, lines 48-54
LocalDevelopment(ip) ==
    [ip |-> ip, city |-> "Local", country |-> "Local Development",
     countryCode |-> "LOCAL", formatted |-> <<"Local Development">>]

\* { ip, formatted: "Unknown Location" }
UnknownLocation(ip) == [ip |-> ip, formatted |-> <<"Unknown Location">>]

\* formatLocation, lines 183-199: the names that are present, joined by ", "
\* (kept as the sequence of the joined names)
formatLocation(response) ==
    LET parts == SelectSeq(<<response.city, response.region, response.country>>,
                           LAMBDA name : name # "")
    IN  IF Len(parts) > 0 THEN parts ELSE <<"Unknown Location">>

\* What the provider does when client.city(ipAddress) is awaited: an answer
\* (names may be missing) or one of its errors
ProviderOutcomes ==
    { [kind |-> "city", city |-> "Paris", region |-> "", country |-> "France"],
      [kind |-> "city", city |-> "", region |-> "", country |-> ""],
      [kind |-> "AddressNotFoundError", city |-> "", region |-> "", country |-> ""],
      [kind |-> "AuthenticationError", city |-> "", region |-> "", country |-> ""],
      [kind |-> "InsufficientFundsError", city |-> "", region |-> "", country |-> ""],
      [kind |-> "PermissionRequiredError", city |-> "", region |-> "", country |-> ""],
      [kind |-> "Error", city |-> "", region |-> "", country |-> ""] }

\* getLocationInfo: whether client.city was called, whether the call threw to
\* the caller, and the LocationInfo returned
getLocationInfo(ipAddress, isConfigured, response) ==
    IF isPrivateIP(ipAddress)
    THEN [called |-> FALSE, threw |-> FALSE, info |-> LocalDevelopment(ipAddress)]
    ELSE IF ~isConfigured
    THEN [called |-> FALSE, threw |-> FALSE, info |-> UnknownLocation(ipAddress)]
    ELSE IF response.kind = "city"
    THEN [called |-> TRUE, threw |-> FALSE,
          info |-> [ip |-> ipAddress, city |-> response.city,
                    region |-> response.region, country |-> response.country,
                    formatted |-> formatLocation(response)]]
    ELSE [called |-> TRUE, threw |-> FALSE, info |-> UnknownLocation(ipAddress)]

\* login, lines 109-118: with an ipAddress in sessionInfo, getLocationInfo is
\* awaited inside try/catch; when the call rejects, locationInfo stays null
\* (the empty set).  A login without ipAddress skips this step.
Login_location(p, ipAddress, isConfigured, response, rejected) ==
    /\ pc[p] = "login_createSession"
    /\ "locationInfo" \notin DOMAIN frame[p]
    /\ LET answer == getLocationInfo(ipAddress, isConfigured, response)
           locationInfo == IF rejected \/ answer.threw THEN {} ELSE {answer.info}
       IN  Goto(p, "login_createSession",
                [op |-> "login", user |-> frame[p].user,
                 locationInfo |-> locationInfo])
    /\ UNCHANGED <<users, sessions, verifications, now, nextUser, nextSession,
                   nextVerification>>

\* POST /resend-verification: a verified caller is answered 400 "Email already
\* verified"; otherwise createEmailVerification(request.user.id)
ResendVerificationRoute(p) ==
    /\ Authenticated(p)
    /\ IF frame[p].user.isEmailVerified
       THEN /\ Return(p, [op |-> "resendVerification", code |-> "ALREADY_VERIFIED",
                          userId |-> frame[p].user.id])
            /\ UNCHANGED <<users, sessions, verifications, now, nextUser,
                           nextSession, nextVerification>>
       ELSE CreateEmailVerification_deleteMany(p, frame[p].user.id)

-----------------------------------------------------------------------------
(* The requests a client can make *)

SessionTokens == {EmptyToken} \cup {SessionToken(n) : n \in 0..MaxSessions}

VerificationTokens == {VerificationToken(n) : n \in 0..MaxVerifications}

SessionIds == {NULL} \cup (1..MaxSessions)

UserIdInputs == 0..MaxUsers

\* The token lifecycle, one request at a time
TokenCall(p) ==
    \/ \E userId \in UserIdInputs : CreateEmailVerification_deleteMany(p, userId)
    \/ \E token \in VerificationTokens : VerifyEmail_find(p, token)
    \/ \E email \in RawNames : RequestPasswordReset_find(p, email)
    \/ \E token \in VerificationTokens, password \in Passwords :
           ResetPassword_find(p, token, password)

TokenStep(p) ==
    \/ Cev_create(p)
    \/ VerifyEmail_tx(p)
    \/ RequestPasswordReset_deleteMany(p)
    \/ RequestPasswordReset_create(p)
    \/ ResetPassword_tx(p)
    \/ Respond(p)

NextTokens == Tick \/ TokenCall("p1") \/ TokenStep("p1")

SpecTokens == InitRegistered /\ [][NextTokens]_vars

\* The session lifecycle, one request at a time
SessionCall(p) ==
    \/ \E email \in RawNames, password \in Passwords : Login_find(p, email, password)
    \/ \E token \in SessionTokens : ValidateSession_find(p, token)
    \/ \E token \in VerificationTokens, password \in Passwords :
           ResetPassword_find(p, token, password)
    \/ \E userId \in UserIdInputs, currentPassword \in Passwords,
          newPassword \in Passwords, keep \in BOOLEAN, sessionId \in SessionIds :
           ChangePassword_find(p, userId, currentPassword, newPassword, keep, sessionId)

SessionStep(p) ==
    \/ Login_createSession(p)
    \/ Login_update(p)
    \/ ValidateSession_delete(p)
    \/ ResetPassword_tx(p)
    \/ ChangePassword_tx(p)
    \/ Respond(p)

Next == Tick \/ SessionCall("p1") \/ SessionStep("p1")

Spec == InitLoggedIn /\ [][Next]_vars

\* Account and session management, one request at a time
AccountCall(p) ==
    \/ \E sessionId \in 1..MaxSessions, userId \in UserIdInputs :
           RevokeSession(p, sessionId, userId)
    \/ \E userId \in UserIdInputs, password \in Passwords :
           DeleteAccount_find(p, userId, password)
    \/ \E userId \in UserIdInputs, currentPassword \in Passwords,
          newPassword \in Passwords, keep \in BOOLEAN, sessionId \in SessionIds :
           ChangePassword_find(p, userId, currentPassword, newPassword, keep, sessionId)
    \/ \E token \in SessionTokens : ValidateSession_find(p, token)
    \/ \E token \in VerificationTokens : VerifyEmail_find(p, token)
    \/ \E token \in VerificationTokens, password \in Passwords :
           ResetPassword_find(p, token, password)

AccountStep(p) ==
    \/ DeleteAccount_delete(p)
    \/ ChangePassword_tx(p)
    \/ ValidateSession_delete(p)
    \/ VerifyEmail_tx(p)
    \/ ResetPassword_tx(p)
    \/ Respond(p)

NextAccount == Tick \/ AccountCall("p1") \/ AccountStep("p1")

SpecAccount == InitLoggedIn /\ [][NextAccount]_vars

\* Role management, one request at a time
RoleCall(p) ==
    \E userId \in UserIdInputs, role \in Roles :
        \/ HasRole(p, userId, role)
        \/ AddRole_find(p, userId, role)
        \/ RemoveRole_find(p, userId, role)

RoleStep(p) ==
    \/ AddRole_update(p)
    \/ RemoveRole_update(p)
    \/ Respond(p)

NextRoles == RoleCall("p1") \/ RoleStep("p1")

SpecRoles == InitRegistered /\ [][NextRoles]_vars

\* Authenticated requests and the cleanup sweep, two requests in progress at
\* once
AuthCall(p) ==
    \/ \E token \in SessionTokens : RequireAuth_find(p, token)
    \/ CleanupExpiredTokens(p)

AuthStep(p) ==
    \/ RequireAuth_delete(p)
    \/ Respond(p)

NextAuth == Tick \/ \E p \in Procs : AuthCall(p) \/ AuthStep(p)

SpecAuth == InitLoggedIn /\ [][NextAuth]_vars

\* Registration from the empty store, one request at a time
RegisterCall(p) ==
    \E data \in RegisterInputs, password \in Passwords :
        Register_findFirst(p, [username |-> data.username, email |-> data.email,
                               password |-> password])

RegisterStep(p) ==
    \/ Register_create(p)
    \/ Cev_deleteMany(p)
    \/ Cev_create(p)
    \/ Respond(p)

NextRegister ==
    \/ Tick
    \/ RegisterCall("p1") \/ RegisterStep("p1")
    \/ \E token \in VerificationTokens : VerifyEmail_find("p1", token)
    \/ VerifyEmail_tx("p1")

SpecRegister == Init /\ [][NextRegister]_vars

\* The token lifecycle with two requests in progress at once
\* (the clock stands still while they race)
NextRace == \E p \in Procs : TokenCall(p) \/ TokenStep(p)

SpecRace == InitRegistered /\ [][NextRace]_vars

\* Registration from the empty store with two requests in progress at once
NextRegisterRace == \E p \in Procs : RegisterCall(p) \/ RegisterStep(p)

SpecRegisterRace == Init /\ [][NextRegisterRace]_vars

\* The store of InitLoggedIn with bob verified, after addRole(1, "ADMIN"):
\* alice is an administrator, bob is not; both hold sessions.
InitAdmin ==
    /\ users = {[Alice("pw1") EXCEPT !.roles = <<"USER", "ADMIN">>],
                Bob("pw1", TRUE)}
    /\ sessions = {SeedSession(1, 1), SeedSession(2, 1), SeedSession(3, 2)}
    /\ verifications =
          { SeedVerification(1, 1, "EMAIL_VERIFICATION", VerificationTtl, 0),
            SeedVerification(2, 2, "EMAIL_VERIFICATION", VerificationTtl, 0),
            SeedVerification(3, 1, "PASSWORD_RESET", ResetTtl, NULL) }
    /\ now = 0
    /\ nextUser = 3
    /\ nextSession = 4
    /\ nextVerification = 4
    /\ Idle

\* The first service call of an admin handler: PATCH /users/:userId/roles,
\* DELETE /users/:userId, POST /cleanup (and GET /stats, which runs the same
\* sweep)
AdminHandler(p) ==
    /\ AdminGranted(p)
    /\ \/ \E userId \in UserIdInputs, role \in Roles :
              AddRole_find(p, userId, role) \/ RemoveRole_find(p, userId, role)
       \/ \E userId \in UserIdInputs : AdminDeleteUser_find(p, userId)
       \/ CleanupExpiredTokens(p)

\* Requests to the admin routes, two in progress at once
AdminCall(p) ==
    /\ frame[p] = NoFrame
    /\ \E token \in SessionTokens : RequireAuth_find(p, token)

AdminStep(p) ==
    \/ RequireAuth_delete(p)
    \/ RequireAuth_attach(p)
    \/ RequireAdmin_hasRole(p)
    \/ AdminHandler(p)
    \/ AddRole_update(p)
    \/ RemoveRole_update(p)
    \/ AdminDeleteUser_delete(p)
    \/ Respond(p)

NextAdmin == Tick \/ \E p \in Procs : AdminCall(p) \/ AdminStep(p)

SpecAdmin == InitAdmin /\ [][NextAdmin]_vars

\* logout and logoutAllSessions called with every user id and session id,
\* logins in between, one request at a time
LogoutCall(p) ==
    \/ \E token \in SessionTokens : Logout(p, token)
    \/ \E userId \in UserIdInputs, exceptSessionId \in SessionIds :
           LogoutAllSessions(p, userId, exceptSessionId)
    \/ \E email \in RawNames, password \in Passwords : Login_find(p, email, password)

LogoutStep(p) ==
    \/ Login_createSession(p)
    \/ Login_update(p)
    \/ Respond(p)

NextLogout == LogoutCall("p1") \/ LogoutStep("p1")

SpecLogout == InitLoggedIn /\ [][NextLogout]_vars

\* Requests to the logout, logout-all and change-password routes, one at a time
RouteCall(p) ==
    /\ frame[p] = NoFrame
    /\ \E token \in SessionTokens : RequireAuth_find(p, token)

RouteHandler(p) ==
    \/ LogoutRoute(p)
    \/ LogoutAllRoute(p)
    \/ \E currentPassword \in Passwords, newPassword \in Passwords,
          logoutOtherDevices \in BOOLEAN :
           ChangePasswordRoute(p, currentPassword, newPassword, logoutOtherDevices)

RouteStep(p) ==
    \/ RequireAuth_delete(p)
    \/ RequireAuth_attach(p)
    \/ RouteHandler(p)
    \/ ChangePassword_tx(p)
    \/ Respond(p)

NextRoutes == Tick \/ RouteCall("p1") \/ RouteStep("p1")

SpecRoutes == InitLoggedIn /\ [][NextRoutes]_vars

\* login and resetPassword with two requests in progress at once
ResetRaceCall(p) ==
    \/ \E email \in RawNames, password \in Passwords : Login_find(p, email, password)
    \/ \E token \in VerificationTokens, password \in Passwords :
           ResetPassword_find(p, token, password)

ResetRaceStep(p) ==
    \/ Login_createSession(p)
    \/ Login_update(p)
    \/ ResetPassword_tx(p)
    \/ Respond(p)

NextResetRace == \E p \in Procs : ResetRaceCall(p) \/ ResetRaceStep(p)

SpecResetRace == InitLoggedIn /\ [][NextResetRace]_vars

\* addRole and removeRole, one call by each of two requests in progress at once
RoleRaceCall(p) ==
    \E userId \in UserIdInputs, role \in Roles :
        \/ AddRole_find(p, userId, role)
        \/ RemoveRole_find(p, userId, role)

RoleRaceStep(p) ==
    \/ AddRole_update(p)
    \/ RemoveRole_update(p)

NextRolesRace == \E p \in Procs : RoleRaceCall(p) \/ RoleRaceStep(p)

SpecRolesRace == InitRegistered /\ [][NextRolesRace]_vars

\* The addresses a login is made from
Addresses ==
    { Address(".", <<"127", "0", "0", "1">>), Address(".", <<"127", "0", "0", "2">>),
      Address(".", <<"10", "1", "2", "3">>), Address(".", <<"172", "16", "0", "1">>),
      Address(".", <<"172", "32", "0", "1">>), Address(".", <<"192", "168", "1", "1">>),
      Address(".", <<"169", "254", "0", "1">>), Address(".", <<"8", "8", "8", "8">>),
      Address(".", <<"localhost">>), Address(":", <<"", "", "1">>),
      Address(":", <<"fe80", "", "1">>), Address(":", <<"FE80", "", "1">>),
      Address(":", <<"fd00", "", "1">>), Address(":", <<"2001", "db8", "", "1">>) }

\* login with the location lookup, one request at a time
GeoCall(p) ==
    \E email \in RawNames, password \in Passwords : Login_find(p, email, password)

GeoStep(p) ==
    \/ \E ipAddress \in Addresses, isConfigured \in BOOLEAN,
          response \in ProviderOutcomes, rejected \in BOOLEAN :
           Login_location(p, ipAddress, isConfigured, response, rejected)
    \/ Login_createSession(p)
    \/ Login_update(p)
    \/ Respond(p)

NextGeo == GeoCall("p1") \/ GeoStep("p1")

SpecGeo == InitLoggedIn /\ [][NextGeo]_vars

\* From the empty store, one request at a time: the registration of one user,
\* verifyEmail, the user's login and the resend-verification route behind
\* requireAuth
ResendCall(p) ==
    /\ frame[p] = NoFrame
    /\ \/ Register_findFirst(p, [username |-> <<"b">>, email |-> <<"b">>,
                                 password |-> "pw1"])
       \/ \E token \in VerificationTokens : VerifyEmail_find(p, token)
       \/ Login_find(p, <<"b">>, "pw1")
       \/ \E token \in SessionTokens : RequireAuth_find(p, token)

ResendStep(p) ==
    \/ Register_create(p)
    \/ Cev_deleteMany(p)
    \/ Cev_create(p)
    \/ VerifyEmail_tx(p)
    \/ Login_createSession(p)
    \/ Login_update(p)
    \/ RequireAuth_delete(p)
    \/ RequireAuth_attach(p)
    \/ ResendVerificationRoute(p)
    \/ Respond(p)

NextResend == Tick \/ ResendCall("p1") \/ ResendStep("p1")

\* Every request in progress is carried on and the user keeps trying: logging in, calling the route with a token, and the
\* route's handler are taken again and again whenever they are possible.
SpecResendFair ==
    /\ Init /\ [][NextResend]_vars
    /\ WF_vars(NextResend)
    /\ SF_vars(Login_find("p1", <<"b">>, "pw1"))
    /\ SF_vars(\E token \in SessionTokens \ {EmptyToken} : RequireAuth_find("p1", token))
    /\ SF_vars(RequireAuth_attach("p1"))
    /\ SF_vars(ResendVerificationRoute("p1"))

-----------------------------------------------------------------------------
(* The claims *)

ClaimOps == {"verifyEmail", "resetPassword"}

Done(p, op) == pc[p] = "done" /\ res[p].op = op

\* C1: of two concurrent claim requests that present the same token value,
\* at most one succeeds, and the other fails with a token error.
C1_AtMostOneClaimSucceeds ==
    \A p, q \in Procs :
        ( /\ p # q
          /\ pc[p] = "done" /\ res[p].op \in ClaimOps
          /\ pc[q] = "done" /\ res[q].op \in ClaimOps
          /\ res[p].token = res[q].token
          /\ res[p].code = "OK" )
        => res[q].code \in {"INVALID_TOKEN", "TOKEN_ALREADY_USED", "TOKEN_EXPIRED",
                            "INVALID_TOKEN_TYPE"}

SessionsOf(S, userId) == {s \in S : s.userId = userId}

\* C2: when resetPassword commits successfully, no session of the token's user
\* is left in the store, however many there were, and the sessions of the
\* other users are unchanged.
C2_ResetRevokesAllSessions ==
    [][ \A p \in Procs :
          (pc[p] = "reset_tx" /\ pc'[p] = "done" /\ res'[p].code = "OK")
          => /\ res'[p].user.id = frame[p].verification.userId
             /\ SessionsOf(sessions', res'[p].user.id) = {}
             /\ sessions' = sessions \ SessionsOf(sessions, res'[p].user.id) ]_vars

\* A reset has succeeded for alice, who had two sessions, and bob's session is
\* still stored.
C2_Witness ==
    \E p \in Procs :
        /\ Done(p, "resetPassword") /\ res[p].code = "OK"
        /\ res[p].user.id = 1 /\ res[p].count = 2
        /\ SessionsOf(sessions, 1) = {}
        /\ SessionsOf(sessions, 2) # {}

\* C3: at most one token with usedAt = null exists per user and type, in every
\* reachable state and under every interleaving of the issue operations.
C3_AtMostOneUnusedToken ==
    \A v, w \in verifications :
        (v.userId = w.userId /\ v.type = w.type /\ v.usedAt = NULL /\ w.usedAt = NULL)
        => v = w

\* A validateSession call that returns on its lookup step: what it was called
\* with is the token of its result.
ValidateReturns(p) ==
    pc[p] = "idle" /\ pc'[p] = "done" /\ res'[p].op = "validateSession"

\* C4: validateSession returns a (user, session) pair if and only if a session
\* with that token is stored, its expiresAt is strictly later than the current
\* time and its owner's email is verified.
C4_ValidIffFutureAndVerified ==
    [][ \A p \in Procs :
          ValidateReturns(p)
          => ( res'[p].code = "OK"
               <=> \E s \in sessions :
                     /\ s.token = res'[p].token
                     /\ s.expiresAt > now
                     /\ \E u \in users : u.id = s.userId /\ u.isEmailVerified ) ]_vars

\* What the claim says of login(email, password), from the store alone
LoginExpected(email, password) ==
    LET matching == {u \in users : u.email = Normalize(email)
                                   /\ u.password = hashPassword(password)}
    IN  IF matching = {} THEN "INVALID_CREDENTIALS"
        ELSE IF \E u \in matching : u.isEmailVerified THEN "OK"
        ELSE "EMAIL_NOT_VERIFIED"

\* C5: login succeeds, creating exactly one session of the user, if and only
\* if a user with the normalized email exists, the password matches and the
\* email is verified; an unknown email and a wrong password give the same
\* INVALID_CREDENTIALS error; EMAIL_NOT_VERIFIED needs the right password; a
\* failing login creates no session.
C5_LoginOutcome ==
    [][ \A p \in Procs :
          /\ \A email \in RawNames, password \in Passwords :
                Login_find(p, email, password)
                => /\ sessions' = sessions
                   /\ IF LoginExpected(email, password) = "OK"
                      THEN /\ pc'[p] = "login_createSession"
                           /\ frame'[p].user.email = Normalize(email)
                      ELSE /\ pc'[p] = "done"
                           /\ res'[p].code = LoginExpected(email, password)
                           /\ res'[p].code = "INVALID_CREDENTIALS"
                              => res'[p] = InvalidCredentials
          /\ pc[p] = "login_createSession" /\ pc'[p] # pc[p]
                => /\ pc'[p] = "login_update"
                   /\ \E s \in sessions' \ sessions :
                         /\ sessions' = sessions \cup {s}
                         /\ s.userId = frame[p].user.id
                         /\ s.expiresAt = now + SessionTtl
          /\ pc[p] = "login_update" /\ pc'[p] # pc[p]
                => /\ sessions' = sessions
                   /\ res'[p].code = "OK"
                   /\ res'[p].user.id = frame[p].user.id
                   /\ \E s \in sessions : s.token = res'[p].session.token
                                          /\ s.userId = res'[p].user.id ]_vars

\* A login of alice, whose address was given in another case and with a blank,
\* has succeeded and its session is stored.
C5_Witness ==
    \E p \in Procs :
        /\ Done(p, "login") /\ res[p].code = "OK"
        /\ res[p].user.email = <<"a">>
        /\ \E s \in sessions : s.token = res[p].session.token /\ s.userId = 1
                               /\ s.id > 3

\* C6: after a successful changePassword with the caller's session id, the
\* user's sessions are exactly the caller's session when keepCurrentSession is
\* true, and none when it is false; the other users' sessions are unchanged.
C6_ChangePasswordSessions ==
    [][ \A p \in Procs :
          (pc[p] = "change_tx" /\ pc'[p] = "done" /\ res'[p].code = "OK")
          => LET f == frame[p] IN
             /\ (f.keepCurrentSession /\ f.currentSessionId # NULL)
                => SessionsOf(sessions', f.userId)
                   = {s \in SessionsOf(sessions, f.userId) : s.id = f.currentSessionId}
             /\ ~f.keepCurrentSession => SessionsOf(sessions', f.userId) = {}
             /\ sessions' \ SessionsOf(sessions', f.userId)
                = sessions \ SessionsOf(sessions, f.userId) ]_vars

\* alice has changed her password from session 1 and kept it: her other
\* session is gone, session 1 and bob's session are stored.
C6_Witness ==
    \E p \in Procs :
        /\ Done(p, "changePassword") /\ res[p].code = "OK"
        /\ res[p].userId = 1 /\ res[p].keepCurrentSession
        /\ res[p].currentSessionId = 1 /\ res[p].count >= 1
        /\ {s.id : s \in SessionsOf(sessions, 1)} = {1}
        /\ SessionsOf(sessions, 2) # {}

\* C7: of two claims of the same token that run one after the other, the first
\* succeeds and sets usedAt and the second fails with TOKEN_ALREADY_USED; a
\* usedAt that is set is never cleared (and the used token stays stored).
C7_ClaimedOnce ==
    [][ /\ \A p \in Procs :
            /\ (pc[p] = "idle" /\ pc'[p] = "done" /\ res'[p].op \in ClaimOps)
               => ( res'[p].code = "TOKEN_ALREADY_USED"
                    <=> \E v \in verifications :
                           v.token = res'[p].token /\ v.usedAt # NULL )
            /\ (pc[p] \in {"verify_tx", "reset_tx"} /\ res'[p].code = "OK")
               => \E v \in verifications' :
                     /\ v.token = res'[p].token
                     /\ v.id = frame[p].verification.id
                     /\ v.usedAt = now
        /\ \A v \in verifications : v.usedAt # NULL => v \in verifications' ]_vars

\* bob's token was claimed in this run, and a later verifyEmail with it has
\* failed with TOKEN_ALREADY_USED.
C7_Witness ==
    \E p \in Procs :
        /\ Done(p, "verifyEmail") /\ res[p].code = "TOKEN_ALREADY_USED"
        /\ res[p].token = VerificationToken(2)
        /\ \E u \in users : u.id = 2 /\ u.isEmailVerified

\* C8: once a second token of the same type is issued for a user before the
\* first one is claimed, the first one is no longer in the store: of two stored
\* tokens of one user and type, the older one has been claimed.
C8_SupersededTokenIsGone ==
    \A v, w \in verifications :
        (v.userId = w.userId /\ v.type = w.type /\ v.id < w.id) => v.usedAt # NULL

\* C9: validateSession on a stored session whose expiresAt is in the past
\* returns null and removes that session and no other; a lookup that rejects a
\* session for another reason deletes nothing.
C9_LazyExpiry ==
    [][ \A p \in Procs :
          /\ (pc[p] = "idle" /\ pc'[p] = "validate_delete")
             => /\ sessions' = sessions
                /\ frame'[p].session \in sessions
                /\ frame'[p].session.expiresAt < now
          /\ ValidateReturns(p)
             => /\ sessions' = sessions
                /\ ~ \E s \in sessions : s.token = res'[p].token /\ s.expiresAt < now
          /\ (pc[p] = "validate_delete" /\ pc'[p] # pc[p])
             => /\ res'[p].code = "null"
                /\ res'[p].token = frame[p].session.token
                /\ frame[p].session \in sessions
                /\ sessions' = sessions \ {frame[p].session} ]_vars

\* validateSession has deleted alice's expired session 1; her session 2 and
\* bob's session are stored.
C9_Witness ==
    \E p \in Procs :
        /\ Done(p, "validateSession") /\ res[p].code = "null" /\ res[p].expired
        /\ res[p].token = SessionToken(1)
        /\ ~ \E s \in sessions : s.id = 1
        /\ \E s \in sessions : s.id = 2
        /\ SessionsOf(sessions, 2) # {}

\* What requestPasswordReset answers for an address that is not registered
UnregisteredAnswer == "OK"

\* C10: requestPasswordReset returns the same successful result whether or not
\* the address is registered, whatever the notifier does.
C10_ResetRequestIndistinguishable ==
    \A p \in Procs :
        Done(p, "requestPasswordReset") => res[p].code = UnregisteredAnswer

IssueOps == {"register", "createEmailVerification", "requestPasswordReset"}

\* C11: an issuing operation that has stored its fresh token returns
\* successfully, whether or not the notifier delivered the message, and the
\* token is in the store.
C11_IssuanceSurvivesNotifierFailure ==
    \A p \in Procs :
        ( /\ pc[p] = "done" /\ res[p].op \in IssueOps
          /\ "verification" \in DOMAIN res[p] )
        => /\ res[p].code = "OK"
           /\ \E v \in verifications : v.id = res[p].verification /\ v.usedAt = NULL

\* What the claim says of register(data), from the store alone
RegisterExpected(data) ==
    IF \E u \in users : u.email = Normalize(data.email) THEN "EMAIL_EXISTS"
    ELSE IF \E u \in users : u.username = Normalize(data.username)
    THEN "USERNAME_EXISTS"
    ELSE "none"

\* C12: a register whose normalized email is that of a stored user fails with
\* EMAIL_EXISTS; one whose normalized username is that of a stored user, with
\* an email that is not stored, fails with USERNAME_EXISTS; a register that
\* fails creates no user and no token.
C12_RegisterConflicts ==
    [][ \A p \in Procs :
          /\ \A data \in RegisterInputs, password \in Passwords :
                Register_findFirst(p, [username |-> data.username,
                                       email |-> data.email, password |-> password])
                => IF RegisterExpected(data) = "none"
                   THEN pc'[p] = "register_create"
                   ELSE pc'[p] = "done" /\ res'[p].code = RegisterExpected(data)
          /\ (pc'[p] = "done" /\ res'[p].op = "register" /\ res'[p].code # "OK")
             => users' = users /\ verifications' = verifications ]_vars

\* C13: under every interleaving of two register calls, stored emails and
\* usernames are normalized and pairwise distinct (so at most one user is
\* created per email and per username), and a register call that does not
\* succeed fails with EMAIL_EXISTS or USERNAME_EXISTS.
C13_ConcurrentRegister ==
    /\ \A u, w \in users :
          /\ u.email = Normalize(u.email) /\ u.username = Normalize(u.username)
          /\ (u.email = w.email \/ u.username = w.username) => u = w
    /\ \A p \in Procs :
          Done(p, "register")
          => res[p].code \in {"OK", "EMAIL_EXISTS", "USERNAME_EXISTS"}

\* An EMAIL_VERIFICATION token is marked used only if its owner is verified.
UsedImpliesVerified ==
    \A v \in verifications :
        (v.type = "EMAIL_VERIFICATION" /\ v.usedAt # NULL)
        => \E u \in users : u.id = v.userId /\ u.isEmailVerified

\* C14: in every reachable state an EMAIL_VERIFICATION token has usedAt set
\* only if its owner's email is verified; the step of verifyEmail that
\* succeeds writes both; a verified user never becomes unverified.
C14_VerifyEmailAtomic ==
    /\ []UsedImpliesVerified
    /\ [][ /\ \A p \in Procs :
                (pc[p] = "verify_tx" /\ pc'[p] = "done" /\ res'[p].code = "OK")
                => /\ \E v \in verifications' :
                         v.id = frame[p].verification.id /\ v.usedAt # NULL
                   /\ \E u \in users' :
                         u.id = frame[p].verification.userId /\ u.isEmailVerified
           /\ \A u \in users : \A w \in users' :
                (u.id = w.id /\ u.isEmailVerified) => w.isEmailVerified ]_vars

\* bob's pending token has been claimed by verifyEmail: it is marked used and
\* bob is verified.
C14_Witness ==
    \E p \in Procs :
        /\ Done(p, "verifyEmail") /\ res[p].code = "OK"
        /\ res[p].user.id = 2 /\ res[p].user.isEmailVerified
        /\ \E v \in verifications : v.id = 2 /\ v.usedAt # NULL
        /\ \E u \in users : u.id = 2 /\ u.isEmailVerified

\* What the claim says of a claim of token as expectedType, from the store alone
ClaimExpected(token, expectedType) ==
    IF ~ \E v \in verifications : v.token = token THEN "INVALID_TOKEN"
    ELSE IF \E v \in verifications : v.token = token /\ v.usedAt # NULL
    THEN "TOKEN_ALREADY_USED"
    ELSE IF \E v \in verifications : v.token = token /\ ~(now < v.expiresAt)
    THEN "TOKEN_EXPIRED"
    ELSE IF \E v \in verifications : v.token = token /\ v.type # expectedType
    THEN "INVALID_TOKEN_TYPE"
    ELSE "none"

\* C15: a claim fails with the first error that applies, in the order not
\* found, already used, expired, type mismatch; it goes on to its commit only
\* when the current time is strictly before the token's expiresAt; a claim that
\* fails leaves users, tokens and sessions unchanged.
C15_ClaimErrorOrder ==
    [][ \A p \in Procs :
          /\ \A token \in VerificationTokens :
                VerifyEmail_find(p, token)
                => IF ClaimExpected(token, "EMAIL_VERIFICATION") = "none"
                   THEN pc'[p] = "verify_tx"
                   ELSE /\ pc'[p] = "done"
                        /\ res'[p].code = ClaimExpected(token, "EMAIL_VERIFICATION")
          /\ \A token \in VerificationTokens, password \in Passwords :
                ResetPassword_find(p, token, password)
                => IF ClaimExpected(token, "PASSWORD_RESET") = "none"
                   THEN pc'[p] = "reset_tx"
                   ELSE /\ pc'[p] = "done"
                        /\ res'[p].code = ClaimExpected(token, "PASSWORD_RESET")
          /\ (pc'[p] = "done" /\ res'[p].op \in ClaimOps /\ res'[p].code # "OK")
             => /\ users' = users
                /\ verifications' = verifications
                /\ sessions' = sessions ]_vars

\* C16: revokeSession(sessionId, userId) returns without error; it removes the
\* session with that id when userId owns it, and leaves the session store as
\* it was when the session is another user's or does not exist.
C16_RevokeOnlyOwn ==
    [][ \A p \in Procs :
          (pc[p] = "idle" /\ pc'[p] = "done" /\ res'[p].op = "revokeSession")
          => LET r == res'[p]
                 target == {s \in sessions : s.id = r.sessionId}
             IN  /\ r.code = "OK"
                 /\ IF \E s \in target : s.userId = r.userId
                    THEN sessions' = sessions \ target
                    ELSE sessions' = sessions ]_vars

\* alice has asked to revoke bob's session 3: the call has returned and the
\* three sessions are stored.
C16_Witness ==
    \E p \in Procs :
        /\ Done(p, "revokeSession") /\ res[p].code = "OK"
        /\ res[p].sessionId = 3 /\ res[p].userId = 1
        /\ {s.id : s \in sessions} = {1, 2, 3}
        /\ \E s \in sessions : s.id = 3 /\ s.userId = 2

\* Every stored session and token references a stored user.
ReferentialIntegrity ==
    /\ \A s \in sessions : \E u \in users : u.id = s.userId
    /\ \A v \in verifications : \E u \in users : u.id = v.userId

\* C17: when deleteAccount succeeds, the user, its sessions and its tokens are
\* removed and nothing else is; every stored session and token references a
\* stored user; a token value that is not stored cannot be claimed and a
\* session token validates only for a stored session of a stored user.
C17_DeleteAccountCascades ==
    /\ []ReferentialIntegrity
    /\ [][ \A p \in Procs :
             /\ (pc[p] = "delete_user" /\ pc'[p] = "done" /\ res'[p].code = "OK")
                => LET userId == frame[p].userId IN
                   /\ users' = {u \in users : u.id # userId}
                   /\ sessions' = {s \in sessions : s.userId # userId}
                   /\ verifications' = {v \in verifications : v.userId # userId}
             /\ ( /\ pc[p] = "idle" /\ pc'[p] = "done" /\ res'[p].op \in ClaimOps
                  /\ ~ \E v \in verifications :
                         \E u \in users : v.token = res'[p].token /\ u.id = v.userId )
                => res'[p].code = "INVALID_TOKEN"
             /\ (ValidateReturns(p) /\ res'[p].code = "OK")
                => \E s \in sessions : \E u \in users :
                      s.token = res'[p].token /\ u.id = s.userId ]_vars

\* alice's account has been deleted with her sessions and tokens, and a later
\* resetPassword with her reset token has failed with INVALID_TOKEN.
C17_Witness ==
    \E p \in Procs :
        /\ Done(p, "resetPassword") /\ res[p].code = "INVALID_TOKEN"
        /\ res[p].token = VerificationToken(3)
        /\ UsersById(1) = {}
        /\ SessionsOf(sessions, 1) = {}
        /\ ~ \E v \in verifications : v.userId = 1
        /\ UsersById(2) # {}

\* A user is stored with that id and another password.
WrongPassword(userId, password) ==
    \E u \in users : u.id = userId /\ u.password # hashPassword(password)

\* C18: changePassword and deleteAccount called with a password that does not
\* match the stored hash fail with INVALID_PASSWORD and leave the users, the
\* sessions and the tokens unchanged.
C18_InvalidPasswordChangesNothing ==
    [][ \A p \in Procs :
          /\ \A userId \in UserIdInputs, currentPassword \in Passwords,
                newPassword \in Passwords, keep \in BOOLEAN, sessionId \in SessionIds :
                ( /\ ChangePassword_find(p, userId, currentPassword, newPassword,
                                         keep, sessionId)
                  /\ WrongPassword(userId, currentPassword) )
                => /\ pc'[p] = "done" /\ res'[p].code = "INVALID_PASSWORD"
                   /\ users' = users /\ sessions' = sessions
                   /\ verifications' = verifications
          /\ \A userId \in UserIdInputs, password \in Passwords :
                (DeleteAccount_find(p, userId, password) /\ WrongPassword(userId, password))
                => /\ pc'[p] = "done" /\ res'[p].code = "INVALID_PASSWORD"
                   /\ users' = users /\ sessions' = sessions
                   /\ verifications' = verifications ]_vars

\* deleteAccount(alice, wrong password) has failed with INVALID_PASSWORD, and
\* alice is stored with her two sessions.
C18_Witness ==
    \E p \in Procs :
        /\ Done(p, "deleteAccount") /\ res[p].code = "INVALID_PASSWORD"
        /\ res[p].userId = 1
        /\ \E u \in users : u.id = 1
        /\ Cardinality(SessionsOf(sessions, 1)) = 2

\* How many times role occurs in the list
Occurrences(roles, role) == Cardinality({i \in 1..Len(roles) : roles[i] = role})

RolesOf(U, userId) == {u.roles : u \in {w \in U : w.id = userId}}

\* C19: run one after the other, addRole leaves the role exactly once in the
\* user's list and changes nothing when the role was there; removeRole leaves
\* the role absent and changes no role list when it was absent; hasRole answers
\* whether the role is in the stored list.
C19_RolesIdempotent ==
    [][ \A p \in Procs :
          (pc'[p] = "done" /\ pc[p] # "done" /\ res'[p].code = "OK")
          => LET r == res'[p] IN
             /\ r.op = "addRole"
                => /\ \A roles \in RolesOf(users', r.userId) :
                         Occurrences(roles, r.role) = 1
                   /\ (\E roles \in RolesOf(users, r.userId) :
                         Occurrences(roles, r.role) >= 1) => users' = users
                   /\ r.user.roles \in RolesOf(users', r.userId)
             /\ r.op = "removeRole"
                => /\ \A roles \in RolesOf(users', r.userId) :
                         Occurrences(roles, r.role) = 0
                   /\ (\E roles \in RolesOf(users, r.userId) :
                         Occurrences(roles, r.role) = 0) => users' = users
                   /\ r.user.roles \in RolesOf(users', r.userId)
             /\ r.op = "hasRole"
                => ( r.value <=> \E roles \in RolesOf(users, r.userId) :
                                    Occurrences(roles, r.role) >= 1 ) ]_vars

\* addRole(alice, ADMIN) has been applied to alice who was an admin already:
\* it has written nothing and her roles are USER, ADMIN.
C19_Witness ==
    \E p \in Procs :
        /\ Done(p, "addRole") /\ res[p].code = "OK"
        /\ res[p].userId = 1 /\ res[p].role = "ADMIN" /\ ~res[p].updated
        /\ RolesOf(users, 1) = {<<"USER", "ADMIN">>}

\* C20: under every interleaving, requireAuth ends in one of three ways:
\* AUTH_REQUIRED exactly when the request carries no token, INVALID_SESSION,
\* or, with a stored session of that token, the user and the session attached
\* to the request.
C20_RequireAuthOutcomes ==
    \A p \in Procs :
        Done(p, "requireAuth")
        => /\ res[p].code \in {"AUTH_REQUIRED", "INVALID_SESSION", "OK"}
           /\ res[p].code = "AUTH_REQUIRED" <=> res[p].token = EmptyToken
           /\ res[p].code = "OK"
              => /\ res[p].session.token = res[p].token
                 /\ res[p].user.id = res[p].session.userId

-----------------------------------------------------------------------------
\* The user holds ADMIN in the store, read from the rows themselves.
AdminInStore(userId) ==
    \E u \in users : u.id = userId /\ \E i \in DOMAIN u.roles : u.roles[i] = "ADMIN"

AdminOps == {"addRole", "removeRole", "adminDeleteUser", "cleanupExpiredTokens"}

\* C21: an admin handler starts only for a request that passed the admin
\* gate; the gate is passed only by a request that requireAuth authenticated
\* and whose user holds ADMIN in the store at the step of the check; a user
\* without ADMIN is answered INSUFFICIENT_PERMISSIONS, the store is not
\* changed by the refusal, and the refused request does nothing more.
C21_AdminGate ==
    [][\A p \in Procs :
        /\ (pc[p] = "idle" /\ (frame'[p].op \in AdminOps \/ res'[p].op \in AdminOps))
           => frame[p].op = "admin"
        /\ (frame'[p].op = "admin" /\ frame[p].op # "admin")
           => /\ frame[p].op = "authenticated"
              /\ AdminInStore(frame[p].user.id)
        /\ (Authenticated(p) /\ ~AdminInStore(frame[p].user.id)
              /\ <<pc[p], frame[p]>> # <<pc'[p], frame'[p]>>)
           => /\ pc'[p] = "done"
              /\ res'[p].op = "requireAdmin"
              /\ res'[p].code = "INSUFFICIENT_PERMISSIONS"
              /\ UNCHANGED <<users, sessions, verifications>>
        /\ (Done(p, "requireAdmin") /\ pc'[p] # "done")
           => /\ pc'[p] = "idle" /\ frame'[p] = NoFrame
              /\ UNCHANGED <<users, sessions, verifications>>]_vars

\* alice, an administrator at the start, is refused after her ADMIN role was
\* removed, and the session of the refused request is still stored.
C21_Witness ==
    \E p \in Procs :
        /\ Done(p, "requireAdmin")
        /\ res[p].code = "INSUFFICIENT_PERMISSIONS"
        /\ res[p].userId = 1
        /\ \E s \in sessions : s.id = res[p].sessionId /\ s.userId = 1

-----------------------------------------------------------------------------
\* The record r, or a record it holds under user, session or session.user,
\* has a password field.
CarriesPassword(r) ==
    \/ "password" \in DOMAIN r
    \/ "user" \in DOMAIN r /\ "password" \in DOMAIN r.user
    \/ "session" \in DOMAIN r
       /\ \/ "password" \in DOMAIN r.session
          \/ "user" \in DOMAIN r.session /\ "password" \in DOMAIN r.session.user

\* C22: no value returned by the service holds a password hash at any depth,
\* the user and the session record returned by validateSession included.
C22_NoPasswordReturned ==
    \A p \in Procs : pc[p] = "done" => ~CarriesPassword(res[p])

-----------------------------------------------------------------------------
\* C24: logoutAllSessions(userId, exceptSessionId) deletes every session of
\* userId but the one whose id is exceptSessionId (none is spared when it is
\* absent) and leaves every other row as it was, also when exceptSessionId
\* names a session of another user.
C24_LogoutAllFrame ==
    [][\A p \in Procs, userId \in UserIdInputs, exceptSessionId \in SessionIds :
        LogoutAllSessions(p, userId, exceptSessionId)
        => /\ \A s \in sessions :
                  s \in sessions' <=> (s.userId # userId \/ s.id = exceptSessionId)
           /\ sessions' \subseteq sessions
           /\ UNCHANGED <<users, verifications>>]_vars

\* alice's sessions were deleted by a call that named bob's session as the one
\* to spare, and bob's session is still stored.
C24_Witness ==
    \E p \in Procs :
        /\ Done(p, "logoutAllSessions")
        /\ res[p].userId = 1 /\ res[p].exceptSessionId = 3
        /\ SessionsOf(sessions, 1) = {}
        /\ \E s \in sessions : s.id = 3 /\ s.userId = 2

\* C26: when the handler of the logout-all route has run, no session of the
\* caller is stored.
C26_LogoutAllRouteLeavesNone ==
    [][\A p \in Procs :
        LogoutAllRoute(p) => ~ \E s \in sessions' : s.userId = frame[p].user.id]_vars

\* C27: when the handler of the logout route has run for a request that
\* passed requireAuth, the session that authenticated it is not stored,
\* whether the token came in the cookie or in the Authorization header.
C27_LogoutRouteDeletesSession ==
    [][\A p \in Procs :
        LogoutRoute(p) => ~ \E s \in sessions' : s.id = frame[p].session.id]_vars

\* C29: a change-password request with the right current password deletes no
\* session when logoutOtherDevices is false, and deletes the caller's
\* sessions other than the current one when it is true.  The service call
\* holds keepCurrentSession = !logoutOtherDevices.
C29_ChangePasswordRouteSessions ==
    [][\A p \in Procs :
        (ChangePassword_tx(p) /\ res'[p].code = "OK")
        => LET logoutOtherDevices == ~frame[p].keepCurrentSession IN
           IF logoutOtherDevices
           THEN \A s \in sessions :
                    s \in sessions' <=> (s.userId # frame[p].userId
                                         \/ s.id = frame[p].currentSessionId)
           ELSE sessions' = sessions]_vars

-----------------------------------------------------------------------------
\* C25: under every interleaving of resetPassword and login of the same user,
\* a session is stored only by a login whose password check was made against
\* the hash that the store holds at that step: once a reset has committed, no
\* session comes from a check against the hash it replaced.
C25_NoSessionFromOldPassword ==
    [][\A p \in Procs :
        (Login_createSession(p) /\ sessions' # sessions)
        => \E u \in users : /\ u.id = frame[p].user.id
                            /\ u.password = frame[p].user.password]_vars

-----------------------------------------------------------------------------
\* The role list after the call r (its op and role) made alone on the list
SerialRoles(roles, r) ==
    IF r.op = "addRole"
    THEN IF Includes(roles, r.role) THEN roles ELSE Append(roles, r.role)
    ELSE RolesWithout(roles, r.role)

\* C30: under every interleaving of one addRole or removeRole call by each of
\* two requests on the same user, whose list was [USER], the stored list
\* holds no role twice and is the list that the two calls leave when run one
\* after the other in some order.
C30_ConcurrentRolesSerial ==
    \A userId \in UserIdInputs :
        (\A p \in Procs : /\ pc[p] = "done" /\ res[p].code = "OK"
                          /\ res[p].userId = userId)
        => \A final \in RolesOf(users, userId) :
               /\ \A role \in Roles : Occurrences(final, role) <= 1
               /\ \/ final = SerialRoles(SerialRoles(<<"USER">>, res["p1"]), res["p2"])
                  \/ final = SerialRoles(SerialRoles(<<"USER">>, res["p2"]), res["p1"])

-----------------------------------------------------------------------------
\* A loopback or private address: 127.0.0.0/8, ::1, localhost; 10.0.0.0/8,
\* 172.16.0.0/12, 192.168.0.0/16, fc00::/7; the link-local 169.254.0.0/16 and
\* fe80::/10 that the service counts with them.
IsLoopbackOrPrivate(ip) ==
    \/ ip.sep = "." /\ ip.parts[1] \in {"127", "10", "localhost"}
    \/ ip.sep = "." /\ Len(ip.parts) = 4
       /\ \/ ip.parts[1] = "172" /\ ip.parts[2] \in Range172
          \/ ip.parts[1] = "192" /\ ip.parts[2] = "168"
          \/ ip.parts[1] = "169" /\ ip.parts[2] = "254"
    \/ ip.sep = ":" /\ ip.parts = <<"", "", "1">>
    \/ ip.sep = ":" /\ LowerGroup(ip.parts[1]) \in {"fe80", "fc00", "fd00"}

\* Whatever the location lookup does, a login whose credentials were accepted
\* goes on, stores a session of the user and answers OK; getLocationInfo
\* throws for no outcome of the provider.
C23_LoginSurvivesEnricher ==
    [][\A p \in Procs :
        /\ \A ipAddress \in Addresses, isConfigured \in BOOLEAN,
              response \in ProviderOutcomes, rejected \in BOOLEAN :
               Login_location(p, ipAddress, isConfigured, response, rejected)
               => /\ pc'[p] = "login_createSession"
                  /\ frame'[p].user = frame[p].user
                  /\ ~getLocationInfo(ipAddress, isConfigured, response).threw
                  /\ (isPrivateIP(ipAddress) /\ ~rejected)
                     => frame'[p].locationInfo = {LocalDevelopment(ipAddress)}
        /\ (pc[p] = "login_createSession" /\ pc'[p] # pc[p])
           => /\ pc'[p] = "login_update"
              /\ \E s \in sessions' \ sessions : s.userId = frame[p].user.id
        /\ (pc[p] = "login_update" /\ pc'[p] # pc[p])
           => /\ res'[p].code = "OK"
              /\ \E s \in sessions : s.token = res'[p].session.token]_vars

\* C23: for every outcome of the location lookup a login with accepted
\* credentials succeeds and stores a session, getLocationInfo throws for no
\* provider outcome, and a private or loopback address gets the fixed local
\* answer without a call to the provider.
C23_EnricherNeverBlocksLogin ==
    C23_LoginSurvivesEnricher
    /\ [][\A p \in Procs, ipAddress \in Addresses, isConfigured \in BOOLEAN,
            response \in ProviderOutcomes :
            (Login_location(p, ipAddress, isConfigured, response, FALSE)
             /\ IsLoopbackOrPrivate(ipAddress))
            => /\ frame'[p].locationInfo = {LocalDevelopment(ipAddress)}
               /\ ~getLocationInfo(ipAddress, isConfigured, response).called]_vars

-----------------------------------------------------------------------------
\* No request is in progress, a user is not verified and the
\* EMAIL_VERIFICATION token issued to them has expired unclaimed; they hold
\* no token that can still be claimed.
Stranded ==
    /\ \A p \in Procs : pc[p] = "idle" /\ frame[p] = NoFrame
    /\ \E u \in users :
        /\ ~u.isEmailVerified
        /\ \E v \in verifications :
               /\ v.userId = u.id /\ v.type = "EMAIL_VERIFICATION"
               /\ v.usedAt = NULL /\ v.expiresAt < now
        /\ \A v \in verifications :
               (v.userId = u.id /\ v.type = "EMAIL_VERIFICATION")
               => (v.usedAt # NULL \/ v.expiresAt < now)

\* The resend-verification route is in its createEmailVerification call.
ResendIssues ==
    \E p \in Procs : pc[p] = "cev_create" /\ frame[p].op = "createEmailVerification"

\* No request ever reaches the createEmailVerification call of the route.
ResendNeverIssues == ~ResendIssues

\* C28: a user who is not verified and whose verification token expired or
\* was lost gets, when they keep trying, to the createEmailVerification call
\* of the resend-verification route.
C28_UnverifiedCanResend == Stranded ~> ResendIssues

====
